---- MODULE Spec2Model ----
(***************************************************************************)
(* Multi-channel notification dispatcher (notify-django-app).              *)
(*                                                                         *)
(* The model covers the Celery task send_notification and its helpers      *)
(* (celery_app/tasks.py), the three channel senders of NotificationService *)
(* (notification_app/services/services.py), the tables of                  *)
(* notification_app/models.py and the administrative trigger that creates  *)
(* a Notification and enqueues its dispatch (notification_app/admin.py).   *)
(*                                                                         *)
(* Conventions.  Python's None and the other falsy values of a type are    *)
(* one value here, because the code only ever tests them with `not x` /    *)
(* `if x`: the id 0 (None or 0), the empty sequence (None or "") for an    *)
(* address.  A channel-list argument keeps None and [] apart              *)
(* (given = FALSE / TRUE).  Text is a sequence of one-character strings.   *)
(***************************************************************************)
EXTENDS Integers, Sequences, FiniteSets, TLC

\* ------------------------------------------------------------------ bounds
\* Longest explicit channel list a caller passes.
MaxChannels == 2
\* Most Notification rows ever created.
MaxNotifications == 1

\* --------------------------------------------------------------- constants
\* NotificationChannel (TextChoices).
EMAIL == "email"
SMS == "sms"
TELEGRAM == "telegram"
NotificationChannel == {EMAIL, SMS, TELEGRAM}

\* A channel name outside the enumeration, as a caller may pass it.
PUSH == "push"
ChannelNames == NotificationChannel \cup {PUSH}

\* error_message of a successful attempt (Python None).
NoError == <<>>

\* A settings attribute that is not defined at all (getattr raises).
Undefined == "<undefined>"

\* Rows of auth.User that exist, and the ids callers may pass.
Users == {1, 2}
UserIds == {1, 2, 3}

\* The invocations of the task send_notification in one behaviour.
Runs == {1, 2}

\* ------------------------------------------------------------ text helpers
Digits == {"0", "1", "2", "3", "4", "5", "6", "7", "8", "9"}

RECURSIVE StripNonDigits(_)
\* re.sub(r'\D', '', phone)
StripNonDigits(s) ==
    IF s = <<>> THEN <<>>
    ELSE IF Head(s) \in Digits
         THEN <<Head(s)>> \o StripNonDigits(Tail(s))
         ELSE StripNonDigits(Tail(s))

\* every character of s[a..b] differs from "@"
NoAt(s, a, b) == \A i \in a..b : s[i] # "@"

\* re.match(r"[^@]+@[^@]+\.[^@]+", email): the pattern is anchored at the
\* start of the string only, so a matching prefix is enough.  s[1..i] is the
\* local part, s[i+1] the "@", s[i+2..j] the domain, s[j+1] the "." and
\* s[j+2..k] the suffix.
EmailRegexMatch(s) ==
    \E i \in 1..Len(s) : \E j \in 1..Len(s) : \E k \in 1..Len(s) :
        /\ i + 2 <= j
        /\ j + 2 <= k
        /\ NoAt(s, 1, i)
        /\ s[i + 1] = "@"
        /\ NoAt(s, i + 2, j)
        /\ s[j + 1] = "."
        /\ NoAt(s, j + 2, k)

\* --------------------------------------------------------------- settings
\* django.conf.settings as the senders read it.  "" is an unset (falsy)
\* value, Undefined an attribute that does not exist.
Configured ==
    [EMAIL_HOST |-> "smtp.real.test", EMAIL_HOST_USER |-> "mailer",
     TWILIO_ACCOUNT_SID |-> "AC1", TWILIO_AUTH_TOKEN |-> "tok",
     TWILIO_PHONE_NUMBER |-> "+100", TELEGRAM_BOT_TOKEN |-> "bot"]

Unconfigured ==
    [EMAIL_HOST |-> "smtp.example.com", EMAIL_HOST_USER |-> "mailer",
     TWILIO_ACCOUNT_SID |-> "AC1", TWILIO_AUTH_TOKEN |-> "",
     TWILIO_PHONE_NUMBER |-> "+100", TELEGRAM_BOT_TOKEN |-> Undefined]

\* getattr(settings, name, None) followed by `not value`
Unset(v) == v = "" \/ v = Undefined

\* ---------------------------------------------------------------- senders
\* What the transport behind a sender does once it is called.
TransportOutcomes ==
    [email |-> {"ok", "exception"},
     sms |-> {"ok", "twilio", "exception"},
     telegram |-> {"ok", "http", "rejected", "nodescription", "exception"}]

\* The (success, error_message) pair a sender returns, with three history
\* fields: sender (a NotificationService method was entered), transport
\* (send_mail, the Twilio client or requests.post was called) and raises (an
\* exception leaves the sender instead of the pair).  Each sender's body is
\* one try block closed by `except Exception`, so raises is FALSE throughout.
SenderResult(ok, msg, tr) ==
    [success |-> ok, error_msg |-> msg, sender |-> TRUE, transport |-> tr,
     raises |-> FALSE]

\* An exception that leaves a sender (what a sender without its except
\* clause would do).
SenderRaises(tr) ==
    [success |-> FALSE, error_msg |-> <<>>, sender |-> TRUE, transport |-> tr,
     raises |-> TRUE]

\* send_email without its except clause: an exception of send_mail leaves
\* the sender.
send_email_no_except(email, conf, outcome) ==
    IF email = <<>> \/ ~EmailRegexMatch(email)
    THEN SenderResult(FALSE, <<"invalid email address">>, FALSE)
    ELSE IF \/ Unset(conf.EMAIL_HOST)
            \/ conf.EMAIL_HOST = "smtp.example.com"
            \/ Unset(conf.EMAIL_HOST_USER)
    THEN SenderResult(FALSE, <<"SMTP settings are not configured">>, FALSE)
    ELSE IF outcome = "ok"
    THEN SenderResult(TRUE, NoError, TRUE)
    ELSE SenderRaises(TRUE)

\* NotificationService.send_email
send_email(email, conf, outcome) ==
    IF email = <<>> \/ ~EmailRegexMatch(email)
    THEN SenderResult(FALSE, <<"invalid email address">>, FALSE)
    ELSE IF \/ Unset(conf.EMAIL_HOST)
            \/ conf.EMAIL_HOST = "smtp.example.com"
            \/ Unset(conf.EMAIL_HOST_USER)
    THEN SenderResult(FALSE, <<"SMTP settings are not configured">>, FALSE)
    ELSE IF outcome = "ok"
    THEN SenderResult(TRUE, NoError, TRUE)
    ELSE SenderResult(FALSE, <<"SMTPException">>, TRUE)

\* send_sms counting the characters of the number as given, not its digits
\* (the length test on phone instead of phone_cleaned).
send_sms_counts_chars(phone, conf, outcome) ==
    IF phone = <<>>
    THEN SenderResult(FALSE, <<"phone number is not given">>, FALSE)
    ELSE IF Len(phone) < 10
    THEN SenderResult(FALSE, <<"invalid number format: ">> \o phone, FALSE)
    ELSE IF \/ conf.TWILIO_ACCOUNT_SID = Undefined
            \/ conf.TWILIO_AUTH_TOKEN = Undefined
            \/ conf.TWILIO_PHONE_NUMBER = Undefined
    THEN SenderResult(FALSE, <<"AttributeError">>, FALSE)
    ELSE IF \/ conf.TWILIO_ACCOUNT_SID = ""
            \/ conf.TWILIO_AUTH_TOKEN = ""
            \/ conf.TWILIO_PHONE_NUMBER = ""
    THEN SenderResult(FALSE, <<"Twilio SMS service is not configured">>, FALSE)
    ELSE IF outcome = "ok"
    THEN SenderResult(TRUE, NoError, TRUE)
    ELSE IF outcome = "twilio"
    THEN SenderResult(FALSE, <<"Twilio error: ", "msg">>, TRUE)
    ELSE SenderResult(FALSE, <<"Exception">>, TRUE)

\* NotificationService.send_sms
send_sms(phone, conf, outcome) ==
    IF phone = <<>>
    THEN SenderResult(FALSE, <<"phone number is not given">>, FALSE)
    ELSE IF Len(StripNonDigits(phone)) < 10
    THEN SenderResult(FALSE, <<"invalid number format: ">> \o phone, FALSE)
    ELSE IF \/ conf.TWILIO_ACCOUNT_SID = Undefined
            \/ conf.TWILIO_AUTH_TOKEN = Undefined
            \/ conf.TWILIO_PHONE_NUMBER = Undefined
    THEN SenderResult(FALSE, <<"AttributeError">>, FALSE)
    ELSE IF \/ conf.TWILIO_ACCOUNT_SID = ""
            \/ conf.TWILIO_AUTH_TOKEN = ""
            \/ conf.TWILIO_PHONE_NUMBER = ""
    THEN SenderResult(FALSE, <<"Twilio SMS service is not configured">>, FALSE)
    ELSE IF outcome = "ok"
    THEN SenderResult(TRUE, NoError, TRUE)
    ELSE IF outcome = "twilio"
    THEN SenderResult(FALSE, <<"Twilio error: ", "msg">>, TRUE)
    ELSE SenderResult(FALSE, <<"Exception">>, TRUE)

\* send_telegram reading the token only after the request: the POST is made
\* before the token is found missing.
send_telegram_posts_first(chat_id, conf, outcome) ==
    IF chat_id = <<>>
    THEN SenderResult(FALSE, <<"Telegram chat id is not given">>, FALSE)
    ELSE IF conf.TELEGRAM_BOT_TOKEN = Undefined
    THEN SenderResult(FALSE, <<"AttributeError">>, TRUE)
    ELSE IF conf.TELEGRAM_BOT_TOKEN = ""
    THEN SenderResult(FALSE, <<"Telegram bot token is not configured">>, TRUE)
    ELSE IF outcome = "ok"
    THEN SenderResult(TRUE, NoError, TRUE)
    ELSE IF outcome = "http"
    THEN SenderResult(FALSE, <<"Telegram service error: ", "RequestException">>, TRUE)
    ELSE IF outcome = "rejected"
    THEN SenderResult(FALSE, <<"description">>, TRUE)
    ELSE IF outcome = "nodescription"
    THEN SenderResult(FALSE, <<"unknown error">>, TRUE)
    ELSE SenderResult(FALSE, <<"Exception">>, TRUE)

\* NotificationService.send_telegram
send_telegram(chat_id, conf, outcome) ==
    IF chat_id = <<>>
    THEN SenderResult(FALSE, <<"Telegram chat id is not given">>, FALSE)
    ELSE IF conf.TELEGRAM_BOT_TOKEN = Undefined
    THEN SenderResult(FALSE, <<"AttributeError">>, FALSE)
    ELSE IF conf.TELEGRAM_BOT_TOKEN = ""
    THEN SenderResult(FALSE, <<"Telegram bot token is not configured">>, FALSE)
    ELSE IF outcome = "ok"
    THEN SenderResult(TRUE, NoError, TRUE)
    ELSE IF outcome = "http"
    THEN SenderResult(FALSE, <<"Telegram service error: ", "RequestException">>, TRUE)
    ELSE IF outcome = "rejected"
    THEN SenderResult(FALSE, <<"description">>, TRUE)
    ELSE IF outcome = "nodescription"
    THEN SenderResult(FALSE, <<"unknown error">>, TRUE)
    ELSE SenderResult(FALSE, <<"Exception">>, TRUE)

\* The (False, text) pair _send_by_channel returns without entering a sender.
NotSent(msg) ==
    [success |-> FALSE, error_msg |-> msg, sender |-> FALSE, transport |-> FALSE,
     raises |-> FALSE]

\* SendByChannel without the tests of the profile fields: the sender is
\* called with whatever address the profile holds, an empty one included.
SendByChannelNoGuard(channel, profile, conf, outcome) ==
    IF channel = EMAIL THEN send_email(profile.email, conf, outcome)
    ELSE IF channel = SMS THEN send_sms(profile.phone_number, conf, outcome)
    ELSE IF channel = TELEGRAM THEN send_telegram(profile.telegram_chat_id, conf, outcome)
    ELSE NotSent(<<"unknown channel: ", channel>>)

\* _send_by_channel
SendByChannel(channel, profile, conf, outcome) ==
    IF channel = EMAIL
    THEN IF profile.email = <<>>
         THEN NotSent(<<"user email is not given">>)
         ELSE send_email(profile.email, conf, outcome)
    ELSE IF channel = SMS
    THEN IF profile.phone_number = <<>>
         THEN NotSent(<<"user phone number is not given">>)
         ELSE send_sms(profile.phone_number, conf, outcome)
    ELSE IF channel = TELEGRAM
    THEN IF profile.telegram_chat_id = <<>>
         THEN NotSent(<<"user Telegram id is not given">>)
         ELSE send_telegram(profile.telegram_chat_id, conf, outcome)
    ELSE NotSent(<<"unknown channel: ", channel>>)

\* The transport outcomes to consider for a channel name.
OutcomesOf(channel) ==
    IF channel \in NotificationChannel THEN TransportOutcomes[channel] ELSE {"ok"}

\* GetAvailableChannels with the phone number looked at before the e-mail
\* address.
GetAvailableChannelsSmsFirst(profile) ==
    (IF profile.phone_number # <<>> THEN <<SMS>> ELSE <<>>)
    \o (IF profile.email # <<>> THEN <<EMAIL>> ELSE <<>>)
    \o (IF profile.telegram_chat_id # <<>> THEN <<TELEGRAM>> ELSE <<>>)

\* _get_available_channels (tasks.py), the ChannelSelector.
GetAvailableChannels(profile) ==
    (IF profile.email # <<>> THEN <<EMAIL>> ELSE <<>>)
    \o (IF profile.phone_number # <<>> THEN <<SMS>> ELSE <<>>)
    \o (IF profile.telegram_chat_id # <<>> THEN <<TELEGRAM>> ELSE <<>>)

\* ------------------------------------------------------------------ state
VARIABLES
    settings,       \* django.conf.settings (read-only to the program)
    profiles,       \* UserProfile table: user id -> profile, for users having one
    notifications,  \* Notification table: the row with id i is notifications[i]
    logs,           \* NotificationLog table, in order of creation
    queue,          \* jobs enqueued by send_notification.delay, oldest first
    task,           \* per invocation of send_notification: its frame
    last_run,       \* history: per notification, how the last finished run on it ended
    notice          \* the message_user notices of the last admin request, in order

vars == <<settings, profiles, notifications, logs, queue, task, last_run, notice>>

\* Addresses used in profiles.
GoodEmail == <<"u", "@", "d", ".", "c">>
BadEmail == <<"u", "s", "e", "r", "@", "@", "b", "a", "d">>
GoodPhone == <<"+", "1", " ", "(", "5", "5", "5", ")", " ", "1", "2", "3", "-", "4", "5", "6", "7">>
BadPhone == <<"1", "2", "3", "4", "5">>
ChatId == <<"4", "2">>

Profile(e, p, t) == [email |-> e, phone_number |-> p, telegram_chat_id |-> t]

\* The worlds a behaviour may start in: django settings and the UserProfile
\* table.  User 2 has no profile in the first two and a profile without any
\* contact in the third, where user 1 can be reached by Telegram only.
Worlds ==
    { <<Configured, (1 :> Profile(GoodEmail, GoodPhone, ChatId))>>,
      <<Unconfigured, (1 :> Profile(GoodEmail, GoodPhone, ChatId))>>,
      <<Configured, (1 :> Profile(BadEmail, BadPhone, ChatId))
                    @@ (2 :> Profile(<<>>, <<>>, <<>>))>> }

\* The channels argument: None (given = FALSE) or a list of channel names.
NoChannels == [given |-> FALSE, list |-> <<>>]
ChannelLists == UNION { [1..n -> ChannelNames] : n \in 0..MaxChannels }
ChannelArgs == {NoChannels} \cup { [given |-> TRUE, list |-> l] : l \in ChannelLists }

\* The result dict of send_notification; a key that is absent is 0 or "".
Result(st, nid, ch, msg) ==
    [status |-> st, notification_id |-> nid, channel |-> ch, message |-> msg]
NoResult == Result("", 0, "", "")

\* What _send_by_channel returned for the channel being processed.
NoAttempt ==
    [success |-> FALSE, error_msg |-> <<>>, sender |-> FALSE, transport |-> FALSE,
     raises |-> FALSE]

\* The frame of an invocation that has not begun.
IdleTask ==
    [pc |-> "idle", user_id |-> 0, channels |-> NoChannels, notification_id |-> 0,
     notification |-> 0, priority_channels |-> <<>>, idx |-> 0, sent |-> NoAttempt,
     tried |-> <<>>, logged |-> <<>>, result |-> NoResult, raised |-> ""]

Init ==
    /\ \E world \in Worlds : settings = world[1] /\ profiles = world[2]
    /\ notifications = <<>>
    /\ logs = <<>>
    /\ queue = <<>>
    /\ task = [r \in Runs |-> IdleTask]
    /\ last_run = <<>>
    /\ notice = <<>>

\* ------------------------------------------------------- send_notification
\* Notification.objects.get(id=notification_id): the id, or 0 for DoesNotExist.
NotificationGet(nid) == IF nid \in 1..Len(notifications) THEN nid ELSE 0

\* How a finished run on a notification ended, from the attempts it logged.
RunOutcome(t) ==
    IF \E i \in 1..Len(t.logged) : t.logged[i].status THEN "success" ELSE "failure"

\* notification.is_delivered = flag; notification.save(); return result.
\* On None the attribute assignment raises AttributeError.
SaveAndReturn(r, flag, result) ==
    LET t == task[r] IN
    IF t.notification = 0
    THEN /\ task' = [task EXCEPT ![r].pc = "crashed", ![r].raised = "AttributeError"]
         /\ UNCHANGED <<notifications, last_run>>
    ELSE /\ notifications' = [notifications EXCEPT ![t.notification].is_delivered = flag]
         /\ last_run' = [last_run EXCEPT ![t.notification] = RunOutcome(t)]
         /\ task' = [task EXCEPT ![r].pc = "done", ![r].result = result]

\* Begin with the Notification created before the user is looked up.
BeginCreatesFirst(r, user_id, channels, notification_id) ==
    /\ task[r].pc = "idle"
    /\ Len(notifications) < MaxNotifications
    /\ notifications' = Append(notifications, [user |-> user_id, is_delivered |-> FALSE])
    /\ last_run' = Append(last_run, "none")
    /\ task' = [task EXCEPT ![r] =
           [IdleTask EXCEPT !.pc = IF user_id \in Users THEN "profile" ELSE "done",
                !.user_id = user_id, !.channels = channels,
                !.notification_id = notification_id,
                !.notification = IF user_id \in Users THEN Len(notifications) + 1 ELSE 0,
                !.result = IF user_id \in Users THEN NoResult
                           ELSE Result("error", 0, "", "user not found")]]
    /\ UNCHANGED <<settings, profiles, logs, notice>>

\* Begin with a _get_or_create_notification that creates a Notification also
\* when it is given an id.
BeginAlwaysCreates(r, user_id, channels, notification_id) ==
    /\ task[r].pc = "idle"
    /\ IF user_id \notin Users
       THEN /\ task' = [task EXCEPT ![r] =
                   [IdleTask EXCEPT !.pc = "done", !.user_id = user_id,
                        !.channels = channels, !.notification_id = notification_id,
                        !.result = Result("error", 0, "", "user not found")]]
            /\ UNCHANGED <<notifications, last_run>>
       ELSE /\ notifications' = Append(notifications, [user |-> user_id, is_delivered |-> FALSE])
            /\ last_run' = Append(last_run, "none")
            /\ task' = [task EXCEPT ![r] =
                   [IdleTask EXCEPT !.pc = "profile", !.user_id = user_id,
                        !.channels = channels, !.notification_id = notification_id,
                        !.notification = Len(notifications) + 1]]
    /\ UNCHANGED <<settings, profiles, logs, notice>>

\* tasks.py 39-45: resolve the user, then _get_or_create_notification.
Begin(r, user_id, channels, notification_id) ==
    /\ task[r].pc = "idle"
    /\ IF user_id \notin Users
       THEN /\ task' = [task EXCEPT ![r] =
                   [IdleTask EXCEPT !.pc = "done", !.user_id = user_id,
                        !.channels = channels, !.notification_id = notification_id,
                        !.result = Result("error", 0, "", "user not found")]]
            /\ UNCHANGED <<notifications, last_run>>
       ELSE IF notification_id # 0
       THEN /\ task' = [task EXCEPT ![r] =
                   [IdleTask EXCEPT !.pc = "profile", !.user_id = user_id,
                        !.channels = channels, !.notification_id = notification_id,
                        !.notification = NotificationGet(notification_id)]]
            /\ UNCHANGED <<notifications, last_run>>
       ELSE /\ Len(notifications) < MaxNotifications
            /\ notifications' = Append(notifications, [user |-> user_id, is_delivered |-> FALSE])
            /\ last_run' = Append(last_run, "none")
            /\ task' = [task EXCEPT ![r] =
                   [IdleTask EXCEPT !.pc = "profile", !.user_id = user_id,
                        !.channels = channels, !.notification_id = notification_id,
                        !.notification = Len(notifications) + 1]]
    /\ UNCHANGED <<settings, profiles, logs, notice>>

\* tasks.py 55: channels or _get_available_channels(profile)
PriorityChannels(channels, profile) ==
    IF channels.list # <<>> THEN channels.list ELSE GetAvailableChannels(profile)

\* ResolveChannels returning the 'profile not found' error without writing
\* the delivered flag (tasks.py 51-52 left out).
ResolveChannelsNoSave(r) ==
    LET t == task[r] IN
    /\ t.pc = "profile"
    /\ IF t.user_id \notin DOMAIN profiles
       THEN /\ task' = [task EXCEPT ![r].pc = "done", ![r].result =
                   Result("error", t.notification, "", "profile not found")]
            /\ UNCHANGED <<notifications, last_run>>
       ELSE LET pc == PriorityChannels(t.channels, profiles[t.user_id]) IN
            IF pc = <<>>
            THEN SaveAndReturn(r, FALSE,
                     Result("error", t.notification, "", "no available channels"))
            ELSE /\ task' = [task EXCEPT ![r].pc = "send", ![r].priority_channels = pc,
                                         ![r].idx = 1]
                 /\ UNCHANGED <<notifications, last_run>>
    /\ UNCHANGED <<settings, profiles, logs, queue, notice>>

\* tasks.py 47-60: load the profile and determine the channel list.
ResolveChannels(r) ==
    LET t == task[r] IN
    /\ t.pc = "profile"
    /\ IF t.user_id \notin DOMAIN profiles
       THEN SaveAndReturn(r, FALSE, Result("error", t.notification, "", "profile not found"))
       ELSE LET pc == PriorityChannels(t.channels, profiles[t.user_id]) IN
            IF pc = <<>>
            THEN SaveAndReturn(r, FALSE,
                     Result("error", t.notification, "", "no available channels"))
            ELSE /\ task' = [task EXCEPT ![r].pc = "send", ![r].priority_channels = pc,
                                         ![r].idx = 1]
                 /\ UNCHANGED <<notifications, last_run>>
    /\ UNCHANGED <<settings, profiles, logs, queue, notice>>

\* tasks.py 63: _send_by_channel for the current channel.
Send(r) ==
    LET t == task[r]
        channel == t.priority_channels[t.idx] IN
    /\ t.pc = "send"
    /\ \E outcome \in OutcomesOf(channel) :
          LET got == SendByChannel(channel, profiles[t.user_id], settings, outcome) IN
          task' = [task EXCEPT ![r].pc = IF got.raises THEN "crashed" ELSE "log",
                      ![r].raised = IF got.raises THEN "Exception" ELSE "",
                      ![r].sent = got,
                      ![r].tried = Append(t.tried,
                          [channel |-> channel, sender |-> got.sender,
                           transport |-> got.transport])]
    /\ UNCHANGED <<settings, profiles, notifications, logs, queue, last_run, notice>>

\* AfterLog without the return at the first success: the loop goes through
\* the whole list.
AfterLogNoStop(t) ==
    IF t.idx < Len(t.priority_channels) THEN [t EXCEPT !.pc = "send", !.idx = t.idx + 1]
    ELSE IF t.sent.success THEN [t EXCEPT !.pc = "delivered"]
    ELSE [t EXCEPT !.pc = "failed"]

\* AfterLog leaving the loop at the first failure as well.
AfterLogBreak(t) ==
    IF t.sent.success THEN [t EXCEPT !.pc = "delivered"] ELSE [t EXCEPT !.pc = "failed"]

\* Where the loop goes after an attempt is logged (tasks.py 62, 72, 77).
AfterLog(t) ==
    IF t.sent.success THEN [t EXCEPT !.pc = "delivered"]
    ELSE IF t.idx < Len(t.priority_channels) THEN [t EXCEPT !.pc = "send", !.idx = t.idx + 1]
    ELSE [t EXCEPT !.pc = "failed"]

\* Log as an update_or_create keyed by (notification, channel): an earlier
\* attempt of the notification on the same channel is overwritten.
LogUpsert(r) ==
    LET t == task[r]
        row == [notification |-> t.notification, channel |-> t.priority_channels[t.idx],
                status |-> t.sent.success, error_message |-> t.sent.error_msg]
        same(l) == l.notification = row.notification /\ l.channel = row.channel IN
    /\ t.pc = "log"
    /\ IF t.notification = 0
       THEN /\ task' = [task EXCEPT ![r].pc = "crashed", ![r].raised = "IntegrityError"]
            /\ UNCHANGED logs
       ELSE /\ logs' = IF \E i \in 1..Len(logs) : same(logs[i])
                       THEN [i \in 1..Len(logs) |-> IF same(logs[i]) THEN row ELSE logs[i]]
                       ELSE Append(logs, row)
            /\ task' = [task EXCEPT ![r] = AfterLog([t EXCEPT !.logged = Append(t.logged, row)])]
    /\ UNCHANGED <<settings, profiles, notifications, queue, last_run, notice>>

\* Log clearing the failed attempts of the notification once an attempt
\* succeeds.
LogDropsFailures(r) ==
    LET t == task[r]
        row == [notification |-> t.notification, channel |-> t.priority_channels[t.idx],
                status |-> t.sent.success, error_message |-> t.sent.error_msg]
        kept(l) == l.notification # row.notification \/ l.status IN
    /\ t.pc = "log"
    /\ IF t.notification = 0
       THEN /\ task' = [task EXCEPT ![r].pc = "crashed", ![r].raised = "IntegrityError"]
            /\ UNCHANGED logs
       ELSE /\ logs' = IF row.status THEN Append(SelectSeq(logs, kept), row)
                       ELSE Append(logs, row)
            /\ task' = [task EXCEPT ![r] = AfterLog([t EXCEPT !.logged = Append(t.logged, row)])]
    /\ UNCHANGED <<settings, profiles, notifications, queue, last_run, notice>>

\* tasks.py 65-70: NotificationLog.objects.create.  The foreign key is not
\* nullable: with notification None the insert raises IntegrityError.
Log(r) ==
    LET t == task[r]
        row == [notification |-> t.notification, channel |-> t.priority_channels[t.idx],
                status |-> t.sent.success, error_message |-> t.sent.error_msg] IN
    /\ t.pc = "log"
    /\ IF t.notification = 0
       THEN /\ task' = [task EXCEPT ![r].pc = "crashed", ![r].raised = "IntegrityError"]
            /\ UNCHANGED logs
       ELSE /\ logs' = Append(logs, row)
            /\ task' = [task EXCEPT ![r] = AfterLog([t EXCEPT !.logged = Append(t.logged, row)])]
    /\ UNCHANGED <<settings, profiles, notifications, queue, last_run, notice>>

\* tasks.py 72-75: first success.
SaveDelivered(r) ==
    LET t == task[r] IN
    /\ t.pc = "delivered"
    /\ SaveAndReturn(r, TRUE,
           Result("success", t.notification, t.priority_channels[t.idx], ""))
    /\ UNCHANGED <<settings, profiles, logs, queue, notice>>

\* SaveFailed without the assignment of the flag: the error is returned and
\* the row keeps the flag it had.
SaveFailedKeepsFlag(r) ==
    LET t == task[r] IN
    /\ t.pc = "failed"
    /\ IF t.notification = 0
       THEN /\ task' = [task EXCEPT ![r].pc = "crashed", ![r].raised = "AttributeError"]
            /\ UNCHANGED <<notifications, last_run>>
       ELSE /\ last_run' = [last_run EXCEPT ![t.notification] = RunOutcome(t)]
            /\ task' = [task EXCEPT ![r].pc = "done", ![r].result =
                   Result("error", t.notification, "", "delivery failed on all channels")]
            /\ UNCHANGED notifications
    /\ UNCHANGED <<settings, profiles, logs, queue, notice>>

\* tasks.py 77-81: every channel failed.
SaveFailed(r) ==
    LET t == task[r] IN
    /\ t.pc = "failed"
    /\ SaveAndReturn(r, FALSE,
           Result("error", t.notification, "", "delivery failed on all channels"))
    /\ UNCHANGED <<settings, profiles, logs, queue, notice>>

\* A caller invokes the task directly with arguments of its choice.
Call(r) ==
    /\ \E user_id \in UserIds : \E channels \in ChannelArgs :
       \E notification_id \in 0..(MaxNotifications + 1) :
          Begin(r, user_id, channels, notification_id)
    /\ UNCHANGED queue

\* A worker takes the oldest job from the queue.
Deliver(r) ==
    /\ queue # <<>>
    /\ Begin(r, Head(queue).user_id, Head(queue).channels, Head(queue).notification_id)
    /\ queue' = Tail(queue)

\* ------------------------------------------------------------------ admin
\* NotificationAdmin._get_available_channels
AdminGetAvailableChannels(user) ==
    IF user \in DOMAIN profiles THEN GetAvailableChannels(profiles[user]) ELSE <<>>

\* One message_user notice of the admin site, about notification id.
Notice(id, text) == [id |-> id, text |-> text]

\* The notice of _send_notification_task (admin.py 114, 119).
TaskNotice(id, broker_up) ==
    IF broker_up THEN Notice(id, "queued") ELSE Notice(id, "error on sending")

\* SendNotificationTask without the notification_id argument of delay(): the
\* job carries no id.
SendNotificationTaskNoId(nid, channels, broker_up) ==
    IF broker_up
    THEN queue' = Append(queue, [user_id |-> notifications'[nid].user,
                                 channels |-> [given |-> TRUE, list |-> channels],
                                 notification_id |-> 0])
    ELSE UNCHANGED queue

\* NotificationAdmin._send_notification_task: send_notification.delay(...);
\* an exception of the broker is caught and nothing is enqueued.
SendNotificationTask(nid, channels, broker_up) ==
    IF broker_up
    THEN queue' = Append(queue, [user_id |-> notifications'[nid].user,
                                 channels |-> [given |-> TRUE, list |-> channels],
                                 notification_id |-> nid])
    ELSE UNCHANGED queue

\* NotificationAdmin.save_model with change = False: the row is created and,
\* if the user has a channel, its dispatch is enqueued.
SaveModel(user) ==
    /\ Len(notifications) < MaxNotifications
    /\ notifications' = Append(notifications, [user |-> user, is_delivered |-> FALSE])
    /\ last_run' = Append(last_run, "none")
    /\ LET available_channels == AdminGetAvailableChannels(user) IN
       IF available_channels = <<>>
       THEN /\ UNCHANGED queue
            /\ notice' = <<Notice(Len(notifications) + 1, "no available channels")>>
       ELSE \E broker_up \in BOOLEAN :
               /\ SendNotificationTask(Len(notifications) + 1, available_channels, broker_up)
               /\ notice' = <<TaskNotice(Len(notifications) + 1, broker_up)>>
    /\ UNCHANGED <<settings, profiles, logs, task>>

\* NotificationAdmin.save_model with change = True: the form's values are
\* saved on the existing row (is_delivered is read-only in the form, the
\* recipient is not) and nothing else is done.
SaveModelChange(n, user) ==
    /\ n \in 1..Len(notifications)
    /\ notifications' = [notifications EXCEPT ![n].user = user]
    /\ UNCHANGED <<settings, profiles, logs, queue, task, last_run, notice>>

\* The orders in which the elements of the set S can be listed.
Orderings(S) ==
    { s \in [1..Cardinality(S) -> S] : \A i, j \in 1..Cardinality(S) : i # j => s[i] # s[j] }

\* logs.values_list('channel', flat=True).distinct() for the logs of
\* notification n (admin.py 161-162): the channels logged for it, each once.
LoggedChannels(n) ==
    { logs[i].channel : i \in { k \in 1..Len(logs) : logs[k].notification = n } }

\* ResendLoop without the fallback to the logged channels (admin.py 160-164
\* left out).
RECURSIVE ResendLoopNoFallback(_, _, _, _, _, _)
ResendLoopNoFallback(ids, q, msgs, count, previous, broker) ==
    IF ids = <<>> THEN [queue |-> q, notice |-> msgs, count |-> count]
    ELSE LET n == Head(ids)
             available_channels == AdminGetAvailableChannels(notifications[n].user)
         IN  IF available_channels = <<>>
             THEN ResendLoopNoFallback(Tail(ids), q,
                      Append(msgs, Notice(n, "no available channels")), count,
                      previous, broker)
             ELSE IF broker[n]
             THEN ResendLoopNoFallback(Tail(ids),
                      Append(q, [user_id |-> notifications[n].user,
                                 channels |-> [given |-> TRUE, list |-> available_channels],
                                 notification_id |-> n]),
                      Append(msgs, TaskNotice(n, TRUE)), count + 1, previous, broker)
             ELSE ResendLoopNoFallback(Tail(ids), q, Append(msgs, TaskNotice(n, FALSE)),
                      count, previous, broker)

\* The body of the loop of resend_notification (admin.py 157-176) over the
\* notifications ids, from the queue q, the notices msgs and the counter
\* count.  previous[n] is the list the query for the logged channels of n
\* returns, broker[n] whether the broker takes the job of n.
RECURSIVE ResendLoop(_, _, _, _, _, _)
ResendLoop(ids, q, msgs, count, previous, broker) ==
    IF ids = <<>> THEN [queue |-> q, notice |-> msgs, count |-> count]
    ELSE LET n == Head(ids)
             live == AdminGetAvailableChannels(notifications[n].user)
             available_channels == IF live # <<>> THEN live ELSE previous[n]
         IN  IF available_channels = <<>>
             THEN ResendLoop(Tail(ids), q,
                      Append(msgs, Notice(n, "no available channels")), count,
                      previous, broker)
             ELSE IF broker[n]
             THEN ResendLoop(Tail(ids),
                      Append(q, [user_id |-> notifications[n].user,
                                 channels |-> [given |-> TRUE, list |-> available_channels],
                                 notification_id |-> n]),
                      Append(msgs, TaskNotice(n, TRUE)), count + 1, previous, broker)
             ELSE ResendLoop(Tail(ids), q, Append(msgs, TaskNotice(n, FALSE)), count,
                      previous, broker)

\* NotificationAdmin.resend_notification over the selected notifications.
\* The queryset and the DISTINCT query carry no ordering, so any order of
\* the selected rows and of the logged channels may come back.  The last
\* notice carries the number of jobs queued in its id field.
ResendNotification(selected) ==
    /\ selected # {}
    /\ \E queryset \in Orderings(selected) :
       \E previous \in [selected -> UNION { Orderings(LoggedChannels(n)) : n \in selected }] :
       \E broker \in [selected -> BOOLEAN] :
          LET out == ResendLoop(queryset, queue, <<>>, 0, previous, broker) IN
          /\ \A n \in selected : previous[n] \in Orderings(LoggedChannels(n))
          /\ queue' = out.queue
          /\ notice' = Append(out.notice, Notice(out.count, "resends queued"))
    /\ UNCHANGED <<settings, profiles, notifications, logs, task, last_run>>

\* UserProfileAdmin: an administrator removes every contact of a profile.
ClearProfile(user) ==
    /\ user \in DOMAIN profiles
    /\ profiles[user] # Profile(<<>>, <<>>, <<>>)
    /\ profiles' = [profiles EXCEPT ![user] = Profile(<<>>, <<>>, <<>>)]
    /\ UNCHANGED <<settings, notifications, logs, queue, task, last_run, notice>>

\* ------------------------------------------------------------------- spec
\* No other invocation is in progress.
Quiet(r) == \A q \in Runs \ {r} : task[q].pc \in {"idle", "done", "crashed"}

\* One invocation of the task, with any arguments, on any state the
\* administrative trigger can have produced.
Next ==
    \/ \E u \in Users : SaveModel(u)
    \/ Call(1)
    \/ Deliver(1)
    \/ ResolveChannels(1)
    \/ Send(1)
    \/ Log(1)
    \/ SaveDelivered(1)
    \/ SaveFailed(1)

Spec == Init /\ [][Next]_vars

\* The arguments of a repeated invocation (a resend, a redelivery): any
\* user id, the id of an existing Notification, and no channel list, the
\* empty list or one channel.
ShortChannelArgs ==
    {NoChannels} \cup
    { [given |-> TRUE, list |-> l] : l \in {<<>>} \cup { <<c>> : c \in ChannelNames } }

Recall(r) ==
    /\ \E user_id \in UserIds : \E channels \in ShortChannelArgs :
       \E notification_id \in 1..Len(notifications) :
          Begin(r, user_id, channels, notification_id)
    /\ UNCHANGED queue

\* No invocation has begun.  The administrative trigger acts first in the
\* two-invocation specifications: a Notification created while a run is in
\* progress cannot be named by that run.
NoneBegun == \A q \in Runs : task[q].pc = "idle"

\* Invocation 2 begins after invocation 1 has begun.
InOrder(r) == \A q \in Runs : q < r => task[q].pc # "idle"

\* Two invocations, one after the other.
NextSeq ==
    \/ \E u \in Users : NoneBegun /\ SaveModel(u)
    \/ \E r \in Runs : Quiet(r) /\ InOrder(r) /\ Recall(r)
    \/ \E r \in Runs : Quiet(r) /\ InOrder(r) /\ Deliver(r)
    \/ \E r \in Runs : ResolveChannels(r)
    \/ \E r \in Runs : Send(r)
    \/ \E r \in Runs : Log(r)
    \/ \E r \in Runs : SaveDelivered(r)
    \/ \E r \in Runs : SaveFailed(r)

SpecSeq == Init /\ [][NextSeq]_vars

\* The invocations that have begun were given notification id nid.
SameTarget(nid) == \A q \in Runs : task[q].pc # "idle" => task[q].notification_id = nid

\* A second invocation for the notification id of the first one: a job
\* delivered twice (at-least-once delivery) or a resend, with no channel
\* list or one channel.
Redeliver(r) ==
    /\ \E user_id \in UserIds :
       \E channels \in { a \in ShortChannelArgs : a.given => a.list # <<>> } :
       \E notification_id \in 1..Len(notifications) :
          SameTarget(notification_id) /\ Begin(r, user_id, channels, notification_id)
    /\ UNCHANGED queue

\* Two invocations for the same notification id on two workers, interleaved
\* step by step.
NextConc ==
    \/ \E u \in Users : NoneBegun /\ SaveModel(u)
    \/ \E r \in Runs : InOrder(r) /\ Redeliver(r)
    \/ \E r \in Runs : InOrder(r) /\ queue # <<>> /\ SameTarget(Head(queue).notification_id) /\ Deliver(r)
    \/ \E r \in Runs : ResolveChannels(r)
    \/ \E r \in Runs : Send(r)
    \/ \E r \in Runs : Log(r)
    \/ \E r \in Runs : SaveDelivered(r)
    \/ \E r \in Runs : SaveFailed(r)

SpecConc == Init /\ [][NextConc]_vars

\* A caller dispatches a new message: no channel list, no notification id.
CallNew(r) ==
    /\ \E user_id \in UserIds : Begin(r, user_id, NoChannels, 0)
    /\ UNCHANGED queue

\* No invocation is in progress.
AllQuiet == \A q \in Runs : task[q].pc \in {"idle", "done", "crashed"}

\* The worlds of the administrative specification: nothing is configured
\* and user 2 has no profile, or e-mail works, user 1 has a good address and
\* a malformed phone number and user 2 a profile without any contact.
AdminWorlds ==
    { <<Unconfigured, (1 :> Profile(GoodEmail, GoodPhone, ChatId))>>,
      <<Configured, (1 :> Profile(GoodEmail, BadPhone, <<>>))
                    @@ (2 :> Profile(<<>>, <<>>, <<>>))>> }

InitAdmin ==
    /\ \E world \in AdminWorlds : settings = world[1] /\ profiles = world[2]
    /\ notifications = <<>>
    /\ logs = <<>>
    /\ queue = <<>>
    /\ task = [r \in Runs |-> IdleTask]
    /\ last_run = <<>>
    /\ notice = <<>>

\* The administrative trigger with the task: notifications are created,
\* saved again and resent, profiles are edited, and jobs are dispatched one
\* after the other.  An admin request is served between two runs, a resend
\* once the queue has been emptied.
NextAdmin ==
    \/ \E u \in Users : AllQuiet /\ SaveModel(u)
    \/ \E n \in 1..MaxNotifications : \E u \in Users : AllQuiet /\ SaveModelChange(n, u)
    \/ \E selected \in SUBSET (1..MaxNotifications) :
          AllQuiet /\ queue = <<>> /\ selected \subseteq 1..Len(notifications) /\ ResendNotification(selected)
    \/ \E u \in Users : AllQuiet /\ ClearProfile(u)
    \/ \E r \in Runs : Quiet(r) /\ InOrder(r) /\ Deliver(r)
    \/ \E r \in Runs : Quiet(r) /\ InOrder(r) /\ CallNew(r)
    \/ \E r \in Runs : ResolveChannels(r)
    \/ \E r \in Runs : Send(r)
    \/ \E r \in Runs : Log(r)
    \/ \E r \in Runs : SaveDelivered(r)
    \/ \E r \in Runs : SaveFailed(r)

SpecAdmin == InitAdmin /\ [][NextAdmin]_vars

\* The profiles of the selector specification: each contact field of user 1
\* is empty, well-formed or malformed, in every combination; user 2 has no
\* profile.
SelectorProfiles ==
    { (1 :> Profile(e, p, t)) :
        e \in {<<>>, GoodEmail, BadEmail}, p \in {<<>>, GoodPhone, BadPhone},
        t \in {<<>>, ChatId} }

InitSelect ==
    /\ settings \in {Configured, Unconfigured}
    /\ profiles \in SelectorProfiles
    /\ notifications = <<>>
    /\ logs = <<>>
    /\ queue = <<>>
    /\ task = [r \in Runs |-> IdleTask]
    /\ last_run = <<>>
    /\ notice = <<>>

\* The channel selector at work: a dispatch without a channel list, and the
\* administrative trigger with the job it enqueues.
NextSelect ==
    \/ \E u \in Users : SaveModel(u)
    \/ CallNew(1)
    \/ Deliver(1)
    \/ ResolveChannels(1)
    \/ Send(1)
    \/ Log(1)
    \/ SaveDelivered(1)
    \/ SaveFailed(1)

SpecSelect == InitSelect /\ [][NextSelect]_vars

\* Settings for the senders: everything configured, the unconfigured
\* project, and every way one required value can be empty or not defined.
SenderSettings ==
    {Configured, Unconfigured}
    \cup { [Configured EXCEPT ![k] = v] :
             k \in {"EMAIL_HOST", "EMAIL_HOST_USER", "TWILIO_ACCOUNT_SID",
                    "TWILIO_AUTH_TOKEN", "TWILIO_PHONE_NUMBER", "TELEGRAM_BOT_TOKEN"},
             v \in {"", Undefined} }

\* Addresses handed to the senders.
EmailInputs ==
    { <<>>, GoodEmail, BadEmail,
      <<"n", "o", "t", "-", "a", "n", "-", "e", "m", "a", "i", "l">>,
      <<"u", "@", "d", ".", "c", "@", "x">>,
      <<"u", "@", "d", ".", "e", ".", "c">>,
      <<"@", "d", ".", "c">>,
      <<"u", "@", ".", "c">>,
      <<"u", "@", "d", ".">>,
      <<"a", ".", "b", "@", "c">> }
PhoneInputs ==
    { <<>>, GoodPhone, BadPhone,
      <<"1", "2", "3", "4", "5", "6", "7", "8", "9", "0">>,
      <<"5", "5", "5", "-", "1", "2", "3", "-", "4", "5", "6">>,
      <<"+", "1", "2", "3", "4", "5", "6", "7", "8", "9">> }
ChatInputs == { <<>>, ChatId }

InitSenders ==
    /\ settings \in SenderSettings
    /\ \E e \in EmailInputs : \E p \in PhoneInputs : \E c \in ChatInputs :
          profiles = (1 :> Profile(e, p, c))
    /\ notifications = <<>>
    /\ logs = <<>>
    /\ queue = <<>>
    /\ task = [r \in Runs |-> IdleTask]
    /\ last_run = <<>>
    /\ notice = <<>>

\* The sender of a channel applied to an address.
SenderOf(channel, address, conf, outcome) ==
    IF channel = EMAIL THEN send_email(address, conf, outcome)
    ELSE IF channel = SMS THEN send_sms(address, conf, outcome)
    ELSE send_telegram(address, conf, outcome)

\* A direct call of a sender of NotificationService with the address of the
\* channel in the profile of the user, present or not.  The frame keeps the
\* channel and what the sender returned.
ServiceCall(r, user) ==
    /\ task[r].pc = "idle"
    /\ user \in DOMAIN profiles
    /\ \E channel \in NotificationChannel : \E outcome \in OutcomesOf(channel) :
          LET address == IF channel = EMAIL THEN profiles[user].email
                         ELSE IF channel = SMS THEN profiles[user].phone_number
                         ELSE profiles[user].telegram_chat_id
              got == SenderOf(channel, address, settings, outcome) IN
          task' = [task EXCEPT ![r] =
                      [IdleTask EXCEPT !.pc = "returned", !.user_id = user,
                           !.priority_channels = <<channel>>, !.idx = 1, !.sent = got,
                           !.tried = <<[channel |-> channel, sender |-> got.sender,
                                        transport |-> got.transport]>>]]
    /\ UNCHANGED <<settings, profiles, notifications, logs, queue, last_run, notice>>

\* The senders on their own, on every address and every configuration.
NextSenders == \E u \in Users : ServiceCall(1, u)

SpecSenders == InitSenders /\ [][NextSenders]_vars

\* ------------------------------------------------------------ run predicates
Done(r) == task[r].pc = "done"
Crashed(r) == task[r].pc = "crashed"

\* The run resolved its Notification (tasks.py 45 returned a row).
Resolved(r) == task[r].pc # "idle" /\ task[r].notification # 0

\* The run entered the channel loop (tasks.py 62).
InLoop(r) == task[r].priority_channels # <<>>

\* The first n channels of the run's list, and the channels of its attempts.
ChannelsTried(r) == [i \in 1..Len(task[r].tried) |-> task[r].tried[i].channel]
ChannelsLogged(r) == [i \in 1..Len(task[r].logged) |-> task[r].logged[i].channel]
Prefix(s, n) == [i \in 1..n |-> s[i]]

\* ------------------------------------------------------------------ claims
\* C1: a dispatch run that reaches the channel loop with its Notification
\* resolved invokes the senders in list order, logs one DeliveryAttempt per
\* channel tried and stops at the first success: every attempt before the
\* last one is a failure, nothing is tried or logged after a success, and a
\* run that returns success has logged k attempts (k - 1 failures and then
\* one success) for the first k channels and names the k-th channel.
C1_FirstSuccessStops ==
    \A r \in Runs :
        LET t == task[r] IN
        (Resolved(r) /\ InLoop(r)) =>
            /\ Len(t.tried) <= Len(t.priority_channels)
            /\ ChannelsTried(r) = Prefix(t.priority_channels, Len(t.tried))
            /\ ChannelsLogged(r) = Prefix(t.priority_channels, Len(t.logged))
            /\ Len(t.logged) = IF t.pc = "log" THEN Len(t.tried) - 1 ELSE Len(t.tried)
            /\ logs = t.logged
            /\ \A i \in 1..(Len(t.logged) - 1) : ~t.logged[i].status
            /\ (t.pc \in {"send", "log"}) => \A i \in 1..Len(t.logged) : ~t.logged[i].status
            /\ (Done(r) /\ t.result.status = "success") =>
                  /\ Len(t.logged) >= 1
                  /\ t.logged[Len(t.logged)].status
                  /\ t.result.channel = t.priority_channels[Len(t.logged)]
                  /\ t.result.notification_id = t.notification
            /\ (Done(r) /\ \E i \in 1..Len(t.logged) : t.logged[i].status) =>
                  t.result.status = "success"

\* C1 witness: the first channel failed, the second succeeded and the third
\* channel of the list was never tried.
C1_Witness ==
    \E r \in Runs :
        /\ Resolved(r) /\ Done(r)
        /\ Len(task[r].priority_channels) = 3
        /\ Len(task[r].tried) = 2
        /\ Len(task[r].logged) = 2
        /\ ~task[r].logged[1].status /\ task[r].logged[2].status
        /\ task[r].result = Result("success", task[r].notification, SMS, "")

\* An orchestrator-level error of the run: the recipient, the explicitly
\* given notification id or the profile does not resolve, or the channel
\* list determined for the run is empty.
UserMissing(r) == task[r].user_id \notin Users
NotificationMissing(r) == task[r].notification_id # 0 /\ task[r].notification = 0
ProfileMissing(r) == task[r].user_id \notin DOMAIN profiles
NoChannelsAvailable(r) ==
    /\ task[r].user_id \in DOMAIN profiles
    /\ PriorityChannels(task[r].channels, profiles[task[r].user_id]) = <<>>
OrchestratorError(r) ==
    /\ task[r].pc # "idle"
    /\ UserMissing(r) \/ NotificationMissing(r) \/ ProfileMissing(r) \/ NoChannelsAvailable(r)

\* C3 (as claimed): a run called with an explicitly empty channel list, for
\* a user with a profile and with its Notification resolved, invokes no
\* sender, logs nothing and, once finished, has returned 'no available
\* channels' and left the delivered flag false.
C3_EmptyListNotReplaced ==
    \A r \in Runs :
        LET t == task[r] IN
        (Resolved(r) /\ t.channels.given /\ t.channels.list = <<>>
            /\ t.user_id \in DOMAIN profiles) =>
            /\ t.tried = <<>>
            /\ t.logged = <<>>
            /\ Done(r) => /\ t.result = Result("error", t.notification, "",
                                               "no available channels")
                          /\ ~notifications[t.notification].is_delivered

\* C4 (as claimed): a run whose explicit notification id does not resolve
\* does not raise; it returns an error result that differs from the
\* recipient-not-found result.
C4_MissingNotificationIsError ==
    \A r \in Runs :
        (task[r].pc # "idle" /\ ~UserMissing(r) /\ NotificationMissing(r)) =>
            /\ ~Crashed(r)
            /\ Done(r) => /\ task[r].result.status = "error"
                          /\ task[r].result.message # "user not found"

\* C5 (as claimed): in a run with an orchestrator-level error no sender is
\* invoked and no DeliveryAttempt is logged.
C5_ErrorsShortCircuit ==
    \A r \in Runs :
        OrchestratorError(r) => task[r].tried = <<>> /\ task[r].logged = <<>>

\* C10 (as claimed): no invocation ends without a result: it never raises,
\* it invokes at most one sender per channel of its list, and a finished
\* invocation has returned status 'success' or 'error'.
C10_AlwaysReturnsResult ==
    \A r \in Runs :
        /\ ~Crashed(r)
        /\ Len(task[r].tried) <= Len(task[r].priority_channels)
        /\ Done(r) => task[r].result.status \in {"success", "error"}

\* C6: the step of a run called with a recipient id that does not exist ends
\* the run at once with the error result 'user not found' and changes no
\* table: no Notification is created or changed (also not the one a supplied
\* notification id names) and no DeliveryAttempt is created.
C6_MissingUserChangesNothing ==
    [][\A r \in Runs :
          (task[r].pc = "idle" /\ task'[r].pc # "idle" /\ task'[r].user_id \notin Users) =>
              /\ task'[r].pc = "done"
              /\ task'[r].result = Result("error", 0, "", "user not found")
              /\ task'[r].tried = <<>>
              /\ task'[r].logged = <<>>
              /\ notifications' = notifications
              /\ logs' = logs]_vars

\* C6 witness: a run with a missing recipient has finished; the notification
\* id it was given names an existing Notification.
C6_Witness ==
    \E r \in Runs :
        /\ Done(r)
        /\ UserMissing(r)
        /\ task[r].notification_id \in 1..Len(notifications)
        /\ task[r].result.status = "error"

\* C7: a finished run that reached the channel loop with its Notification
\* resolved and whose attempts all failed has tried every channel of its
\* non-empty list: it logged one failed DeliveryAttempt per channel, in list
\* order, the delivered flag is false and the result is the error 'delivery
\* failed on all channels' with the notification id.
C7_AllChannelsFail ==
    \A r \in Runs :
        LET t == task[r] IN
        (Resolved(r) /\ InLoop(r) /\ t.pc \in {"failed", "done"}
            /\ \A i \in 1..Len(t.logged) : ~t.logged[i].status) =>
            /\ Len(t.tried) = Len(t.priority_channels)
            /\ Len(t.logged) = Len(t.priority_channels)
            /\ ChannelsLogged(r) = t.priority_channels
            /\ logs = t.logged
            /\ Done(r) =>
                  /\ ~notifications[t.notification].is_delivered
                  /\ t.result = Result("error", t.notification, "",
                                       "delivery failed on all channels")

\* C7 witness: a finished run whose three channels all failed.
C7_Witness ==
    \E r \in Runs :
        /\ Resolved(r) /\ Done(r)
        /\ Len(task[r].priority_channels) = 3
        /\ Len(task[r].logged) = 3
        /\ \A i \in 1..3 : ~task[r].logged[i].status
        /\ task[r].result.status = "error"

\* C9: no exception leaves a sender: whatever fails in it (validation,
\* configuration, transport exception, remote rejection) comes back as
\* (false, error text).  In a run with its Notification resolved every failed
\* attempt is logged with its error text, and after a failed attempt that is
\* not the last of the list the run goes on with the next channel.
C9_SenderFailureIsData ==
    \A r \in Runs :
        LET t == task[r] IN
        /\ ~t.sent.raises
        /\ t.raised # "Exception"
        /\ (t.pc = "log" /\ ~t.sent.success) => t.sent.error_msg # NoError
        /\ Resolved(r) =>
              /\ \A i \in 1..Len(t.logged) :
                    ~t.logged[i].status => t.logged[i].error_message # NoError
              /\ (/\ Len(t.logged) >= 1
                  /\ ~t.logged[Len(t.logged)].status
                  /\ Len(t.logged) < Len(t.priority_channels)) =>
                    /\ t.pc \in {"send", "log"}
                    /\ t.idx = Len(t.logged) + 1

\* C9 witness: the run logged a failure of the transport, went on, and logged
\* a failure found before any transport was called.
C9_Witness ==
    \E r \in Runs :
        /\ Resolved(r)
        /\ Len(task[r].logged) >= 2
        /\ task[r].tried[1].transport /\ ~task[r].logged[1].status
        /\ task[r].logged[1].error_message # NoError
        /\ task[r].tried[2].sender /\ ~task[r].tried[2].transport
        /\ ~task[r].logged[2].status

\* C2: with task invocations running one after the other, the delivered
\* flag of a Notification on which a run has finished is true if and only if
\* the most recent finished run on it logged an attempt with outcome true.
\* (last_run records, when a run on the Notification returns, whether the
\* attempts that run logged include a success.)
C2_FlagIsLastRun ==
    \A n \in 1..Len(notifications) :
        last_run[n] # "none" =>
            (notifications[n].is_delivered <=> last_run[n] = "success")

\* C2 witness: the first run delivered the Notification, the second run on it
\* has finished without a success and the flag is false again.
C2_Witness ==
    \E n \in 1..Len(notifications) :
        /\ Done(1) /\ Done(2)
        /\ task[1].notification = n /\ task[2].notification = n
        /\ task[1].result.status = "success"
        /\ task[2].result.status = "error"
        /\ ~notifications[n].is_delivered

\* s is an interleaving of a and b: it holds the elements of both, each
\* sequence in its own order.
RECURSIVE IsInterleaving(_, _, _)
IsInterleaving(s, a, b) ==
    IF s = <<>> THEN a = <<>> /\ b = <<>>
    ELSE \/ a # <<>> /\ Head(a) = Head(s) /\ IsInterleaving(Tail(s), Tail(a), b)
         \/ b # <<>> /\ Head(b) = Head(s) /\ IsInterleaving(Tail(s), a, Tail(b))

\* The NotificationLog rows of notification n, oldest first.
LogsOf(n) == SelectSeq(logs, LAMBDA l : l.notification = n)

\* C8 (state part): when two runs, interleaved in any way, have finished on
\* the same Notification, its attempt log is an interleaving of the attempts
\* of the two runs (none lost, changed or merged, each run's attempts in the
\* order of its channel list) and its delivered flag is the outcome of one of
\* the two runs.
C8_BothRunsKept ==
    \A n \in 1..Len(notifications) :
        (/\ Done(1) /\ Done(2)
         /\ task[1].notification = n /\ task[2].notification = n) =>
            /\ IsInterleaving(LogsOf(n), task[1].logged, task[2].logged)
            /\ \A r \in Runs :
                  ChannelsLogged(r) = Prefix(task[r].priority_channels, Len(task[r].logged))
            /\ \/ notifications[n].is_delivered <=> RunOutcome(task[1]) = "success"
               \/ notifications[n].is_delivered <=> RunOutcome(task[2]) = "success"

\* C8 (step part): a step of a run that was given a notification id creates
\* no Notification, and no step removes or changes a row of the attempt log.
C8_NoRowCreatedOrLost ==
    /\ \A r \in Runs :
          (task'[r] # task[r] /\ task'[r].notification_id # 0) =>
              Len(notifications') = Len(notifications)
    /\ Len(logs') >= Len(logs)
    /\ Prefix(logs', Len(logs)) = logs

\* C8: dispatch is safe to run twice for the same notification id, also when
\* the two runs interleave step by step.
C8_SafeToRunTwice == []C8_BothRunsKept /\ [][C8_NoRowCreatedOrLost]_vars

\* C8 witness: two runs on the same Notification have finished, the second
\* logged an attempt before the first logged its last one, and one run ended
\* in success, the other in failure.
C8_Witness ==
    \E n \in 1..Len(notifications) :
        /\ Done(1) /\ Done(2)
        /\ task[1].notification = n /\ task[2].notification = n
        /\ Len(task[1].logged) >= 2 /\ Len(task[2].logged) >= 1
        /\ LogsOf(n) # task[1].logged \o task[2].logged
        /\ LogsOf(n) # task[2].logged \o task[1].logged
        /\ RunOutcome(task[1]) # RunOutcome(task[2])

\* C11 (state part): a run whose recipient exists but has no profile, with
\* its Notification resolved, invokes no sender and logs no DeliveryAttempt,
\* whatever channel list it was given, and once past the profile lookup it
\* has returned the error 'profile not found' with the notification's id.
C11_ProfileMissingResult ==
    \A r \in Runs :
        LET t == task[r] IN
        (Resolved(r) /\ ~UserMissing(r) /\ ProfileMissing(r)) =>
            /\ t.tried = <<>>
            /\ t.logged = <<>>
            /\ t.pc \in {"profile", "done"}
            /\ Done(r) => t.result = Result("error", t.notification, "", "profile not found")

\* C11 (step part): the step that finds the profile missing leaves the
\* Notification's delivered flag false (also when an earlier run had set it)
\* and creates no DeliveryAttempt and no Notification.
C11_ProfileMissingStep ==
    \A r \in Runs :
        (/\ task[r].pc = "profile" /\ task'[r].pc # "profile"
         /\ task[r].notification # 0
         /\ task[r].user_id \notin DOMAIN profiles) =>
            /\ ~notifications'[task[r].notification].is_delivered
            /\ logs' = logs
            /\ Len(notifications') = Len(notifications)

\* C11: dispatch for a recipient without a ContactProfile marks the
\* Notification not delivered, returns 'profile not found' with its id and
\* logs nothing.
C11_ProfileMissing == []C11_ProfileMissingResult /\ [][C11_ProfileMissingStep]_vars

\* C11 witness: a run with an explicit channel list for a recipient without
\* a profile has finished on a Notification that the run before it had
\* delivered; the flag is false again and the log holds the first run only.
C11_Witness ==
    /\ Done(1) /\ Done(2)
    /\ task[1].result.status = "success"
    /\ task[2].notification = task[1].notification
    /\ task[2].user_id \in Users /\ ProfileMissing(2)
    /\ task[2].channels.list # <<>>
    /\ task[2].result.message = "profile not found"
    /\ ~notifications[task[2].notification].is_delivered
    /\ logs = task[1].logged

\* The contact field of a profile that belongs to a channel, and the place of
\* a channel in the priority order Email, SMS, ChatBot.
FieldOf(profile, c) ==
    IF c = EMAIL THEN profile.email
    ELSE IF c = SMS THEN profile.phone_number
    ELSE profile.telegram_chat_id
RankOf(c) == IF c = EMAIL THEN 1 ELSE IF c = SMS THEN 2 ELSE 3

\* The list holds exactly the channels whose field in the profile is
\* non-empty, each once, in the order Email, SMS, ChatBot.
IsSelectionOf(list, profile) ==
    /\ \A i \in 1..Len(list) : list[i] \in NotificationChannel
    /\ \A c \in NotificationChannel :
          (\E i \in 1..Len(list) : list[i] = c) <=> FieldOf(profile, c) # <<>>
    /\ \A i, j \in 1..Len(list) : i < j => RankOf(list[i]) < RankOf(list[j])

\* C12 (state part): the list a run without an explicit channel list works
\* on, and the list of every job the administrative trigger enqueued, is
\* the selection of the recipient's profile; when no field is populated the
\* selection is empty and the run ends with 'no available channels'.
C12_SelectionUsed ==
    /\ \A r \in Runs :
          LET t == task[r] IN
          (t.pc \notin {"idle", "profile"} /\ t.user_id \in DOMAIN profiles
              /\ t.channels.list = <<>>) =>
              /\ IsSelectionOf(t.priority_channels, profiles[t.user_id])
              /\ (\A c \in NotificationChannel : FieldOf(profiles[t.user_id], c) = <<>>)
                    => t.priority_channels = <<>> /\ t.tried = <<>>
    /\ \A i \in 1..Len(queue) :
          /\ queue[i].user_id \in DOMAIN profiles
          /\ queue[i].channels.list # <<>>
          /\ IsSelectionOf(queue[i].channels.list, profiles[queue[i].user_id])

\* C12 (step part): the step of a run that takes the selection as its
\* channel list changes nothing but the run's own frame.
C12_SelectionIsPure ==
    \A r \in Runs :
        (task[r].pc = "profile" /\ task'[r].pc = "send") =>
            UNCHANGED <<settings, profiles, notifications, logs, queue>>

\* C12: for each of the 8 combinations of populated and empty contact
\* fields the selector returns exactly the channels with a populated field,
\* without duplicates, in the order Email, SMS, ChatBot (the empty sequence
\* when none is populated), and changes no state.
C12_SelectorOrder == []C12_SelectionUsed /\ [][C12_SelectionIsPure]_vars

\* C12 witness: with the e-mail address empty and the other two fields
\* populated a run works on the list SMS, ChatBot.
C12_Witness ==
    \E r \in Runs :
        /\ task[r].user_id \in DOMAIN profiles
        /\ profiles[task[r].user_id].email = <<>>
        /\ task[r].channels.list = <<>>
        /\ task[r].priority_channels = <<SMS, TELEGRAM>>

\* A run begins in this step.
Begins(r) == task[r].pc = "idle" /\ task'[r].pc # "idle"

\* C13 (step part): a run that begins with no notification id and an
\* existing recipient creates exactly one Notification, for that recipient,
\* and works on it; a run that begins otherwise creates none, and one given
\* an id that resolves works on that row; no later step of a run and no
\* resend creates or removes a Notification (the only other creation is the
\* administrative one, of one row); an attempt a run logs is appended to the
\* log of the Notification the run works on.
C13_CountChange ==
    /\ \A r \in Runs :
          (Begins(r) /\ task'[r].notification_id = 0 /\ task'[r].user_id \in Users) =>
              /\ notifications' = Append(notifications,
                                         [user |-> task'[r].user_id, is_delivered |-> FALSE])
              /\ task'[r].notification = Len(notifications')
    /\ \A r \in Runs :
          (Begins(r) /\ ~(task'[r].notification_id = 0 /\ task'[r].user_id \in Users)) =>
              /\ notifications' = notifications
              /\ (task'[r].user_id \in Users
                      /\ task'[r].notification_id \in 1..Len(notifications)) =>
                    task'[r].notification = task'[r].notification_id
    /\ \A r \in Runs :
          (task[r].pc # "idle" /\ task'[r] # task[r]) =>
              /\ Len(notifications') = Len(notifications)
              /\ logs' # logs =>
                    /\ Len(logs') = Len(logs) + 1
                    /\ logs'[Len(logs')].notification = task[r].notification
    /\ task' = task =>
          /\ Len(notifications') \in {Len(notifications), Len(notifications) + 1}
          /\ Len(notifications') # Len(notifications) =>
                Len(notice') = 1 /\ notice'[1].id = Len(notifications')
          /\ (notice' # notice /\ notice'[Len(notice')].text = "resends queued") =>
                notifications' = notifications

\* C13 (state part): every job in the queue carries the id of an existing
\* Notification, so its dispatch resolves that row.
C13_JobsNameRows ==
    \A i \in 1..Len(queue) : queue[i].notification_id \in 1..Len(notifications)

\* C13: the number of Notification records changes only by a dispatch
\* without notification id (exactly one new row) and by the administrative
\* creation; a dispatch with an id that resolves, and a resend, create none,
\* so a notification created by the administrative trigger stays one record
\* however often it is dispatched or resent.
C13_OneRecordPerMessage == []C13_JobsNameRows /\ [][C13_CountChange]_vars

\* C13 witness: the one Notification was created by the administrative
\* trigger, dispatched from the queue, resent and dispatched again; it is
\* still the only row and its log holds the attempts of both runs.
C13_Witness ==
    /\ Done(1) /\ Done(2)
    /\ task[1].notification_id = 1 /\ task[2].notification_id = 1
    /\ task[1].channels.given /\ task[2].channels.given
    /\ Len(notifications) = 1
    /\ task[1].logged # <<>> /\ task[2].logged # <<>>
    /\ LogsOf(1) = task[1].logged \o task[2].logged
    /\ notice # <<>> /\ notice[Len(notice)].text = "resends queued"

\* The administrative trigger creates a Notification in this step, and saves
\* an existing one.
AdminCreates == task' = task /\ Len(notifications') = Len(notifications) + 1
AdminSavesExisting ==
    task' = task /\ Len(notifications') = Len(notifications) /\ notifications' # notifications

\* The job of notification n with the channel list.
JobOf(n, list) ==
    [user_id |-> notifications'[n].user, channels |-> [given |-> TRUE, list |-> list],
     notification_id |-> n]

\* The recipient of notification n has a profile with a populated field.
Reachable(n) ==
    /\ notifications'[n].user \in DOMAIN profiles
    /\ \E c \in NotificationChannel : FieldOf(profiles[notifications'[n].user], c) # <<>>

\* C14 (as claimed): when the administrative trigger creates a Notification
\* and the broker does not refuse the job, one job with the new id is added
\* to the queue, for every recipient.
C14_EnqueuedForEveryRecipient ==
    [][(AdminCreates /\ notice'[1].text # "error on sending") =>
          /\ Len(queue') = Len(queue) + 1
          /\ queue'[Len(queue')].notification_id = Len(notifications')]_vars

\* C14 (amended): when the administrative trigger creates a Notification
\* whose recipient has a profile with a populated field, it enqueues one job
\* with the new id, the recipient and the selection of the recipient's
\* profile, unless the broker refuses the job (then nothing is enqueued and
\* the administrator is told of the error); for a recipient without profile
\* or without any populated field it enqueues nothing and tells the
\* administrator that there is no available channel.  Saving an existing
\* Notification enqueues nothing.
C14_EnqueuedIfReachable ==
    [][/\ AdminCreates =>
            LET n == Len(notifications') IN
            /\ Len(notice') = 1 /\ notice'[1].id = n
            /\ ~notifications'[n].is_delivered
            /\ IF Reachable(n)
               THEN /\ notice'[1].text \in {"queued", "error on sending"}
                    /\ notice'[1].text = "error on sending" => queue' = queue
                    /\ notice'[1].text = "queued" =>
                          /\ Len(queue') = Len(queue) + 1
                          /\ \E list \in ChannelLists \cup [1..3 -> NotificationChannel] :
                                /\ IsSelectionOf(list, profiles[notifications'[n].user])
                                /\ queue' = Append(queue, JobOf(n, list))
               ELSE /\ notice'[1].text = "no available channels"
                    /\ queue' = queue
       /\ AdminSavesExisting => queue' = queue /\ notice' = notice]_vars

\* C14 witness: the Notification just created for a recipient with two
\* populated fields has its job in the queue, with its id and both channels.
C14_Witness ==
    /\ notifications # <<>>
    /\ notice = <<Notice(Len(notifications), "queued")>>
    /\ queue # <<>>
    /\ queue[Len(queue)].notification_id = Len(notifications)
    /\ queue[Len(queue)].user_id = notifications[Len(notifications)].user
    /\ queue[Len(queue)].channels.list = <<EMAIL, SMS>>

\* The administrative resend action is served in this step.
ResendStep ==
    /\ task' = task /\ notifications' = notifications /\ profiles' = profiles
    /\ notice' # <<>> /\ notice'[Len(notice')].text = "resends queued"
    /\ notice' # notice \/ queue' # queue

\* The channels of the attempts logged for notification n.
ChannelsInLogOf(n) == { LogsOf(n)[i].channel : i \in 1..Len(LogsOf(n)) }

\* The list holds each element of the set S once.
ListsOnce(list, S) ==
    /\ Len(list) = Cardinality(S)
    /\ { list[i] : i \in 1..Len(list) } = S

\* The notices of a request that say a job was queued, in order.
QueuedNotices(msgs) == SelectSeq(msgs, LAMBDA m : m.text = "queued")

\* C15: the resend action tells the administrator, for each selected
\* notification once, what it did.  It adds to the queue one job per
\* notification reported as queued, in that order: the job carries the
\* notification's id and recipient, and its channel list is the selection of
\* the recipient's profile when that is non-empty and otherwise the channels
\* of the notification's attempt log, each once.  A notification is reported
\* as having no available channels, and gets no job, exactly when both are
\* empty; otherwise the only way it gets no job is an error of the broker,
\* which is reported.  The closing notice counts the jobs queued.
C15_ResendChannels ==
    [][ResendStep =>
          LET msgs == Prefix(notice', Len(notice') - 1)
              done == QueuedNotices(msgs) IN
          /\ msgs # <<>>
          /\ \A i, j \in 1..Len(msgs) : i # j => msgs[i].id # msgs[j].id
          /\ \A i \in 1..Len(msgs) :
                /\ msgs[i].id \in 1..Len(notifications)
                /\ msgs[i].text \in {"queued", "error on sending", "no available channels"}
                /\ msgs[i].text = "no available channels" <=>
                      (~Reachable(msgs[i].id) /\ ChannelsInLogOf(msgs[i].id) = {})
          /\ Len(queue') = Len(queue) + Len(done)
          /\ Prefix(queue', Len(queue)) = queue
          /\ notice'[Len(notice')].id = Len(done)
          /\ \A k \in 1..Len(done) :
                LET n == done[k].id
                    job == queue'[Len(queue) + k] IN
                /\ job.notification_id = n
                /\ job.user_id = notifications[n].user
                /\ job.channels.given
                /\ IF Reachable(n)
                   THEN IsSelectionOf(job.channels.list, profiles[notifications[n].user])
                   ELSE ListsOnce(job.channels.list, ChannelsInLogOf(n))]_vars

\* C15 witness: the recipient's profile has lost its contacts; the resend
\* has queued a job for the notification with the two channels that its log
\* of more than two attempts names.
C15_Witness ==
    \E n \in 1..Len(notifications) :
        /\ notifications[n].user \in DOMAIN profiles
        /\ profiles[notifications[n].user] = Profile(<<>>, <<>>, <<>>)
        /\ notice = <<Notice(n, "queued"), Notice(1, "resends queued")>>
        /\ Len(queue) = 1
        /\ queue[1].notification_id = n
        /\ Len(queue[1].channels.list) = 2
        /\ ListsOnce(queue[1].channels.list, ChannelsInLogOf(n))
        /\ Len(LogsOf(n)) > 2

\* A direct call of the sender of the channel has returned in frame r, and
\* the address it was given.
Returned(r, channel) == task[r].pc = "returned" /\ task[r].priority_channels = <<channel>>
AddressOf(r) == FieldOf(profiles[task[r].user_id], task[r].priority_channels[1])

\* The whole of s is: one or more characters other than "@", "@", one or
\* more characters other than "@", ".", one or more characters other than "@".
WhollyEmailForm(s) ==
    \E i \in 1..Len(s) : \E j \in 1..Len(s) :
        /\ i + 2 <= j
        /\ j + 2 <= Len(s)
        /\ \A k \in (1..i) \cup ((i + 2)..j) \cup ((j + 2)..Len(s)) : s[k] # "@"
        /\ s[i + 1] = "@"
        /\ s[j + 1] = "."

\* C16 (as claimed): the e-mail sender returns failure, and send_mail is not
\* called, for every address that is not wholly of that form: the absent
\* address, "not-an-email", "user@@bad", and any address with a second "@".
C16_RejectsMalformedEmail ==
    \A r \in Runs :
        (Returned(r, EMAIL) /\ ~WhollyEmailForm(AddressOf(r))) =>
            ~task[r].sent.success /\ ~task[r].sent.transport

\* The number of digit characters of s.
DigitCount(s) == Cardinality({ i \in 1..Len(s) : s[i] \in Digits })

\* The text msg (a sequence of pieces and characters) holds the characters
\* of s in a row.
ContainsText(msg, s) ==
    \E k \in 0..Len(msg) :
        k + Len(s) <= Len(msg) /\ \A i \in 1..Len(s) : msg[k + i] = s[i]

\* The SMS sender turned the number down in its validation: the result is
\* one of its two validation errors.
SmsRejected(res) ==
    /\ ~res.success
    /\ \/ res.error_msg = <<"phone number is not given">>
       \/ res.error_msg # <<>> /\ Head(res.error_msg) = "invalid number format: "

\* The three values the SMS gateway needs are set.
TwilioConfigured ==
    \A k \in {"TWILIO_ACCOUNT_SID", "TWILIO_AUTH_TOKEN", "TWILIO_PHONE_NUMBER"} :
        settings[k] \notin {"", Undefined}

\* C17: the SMS sender turns a number down in validation exactly when it
\* holds fewer than 10 digit characters; a number turned down gives a
\* failure whose error text holds the number as given, and the gateway is
\* not called; a number with 10 digits or more reaches the gateway whenever
\* the gateway is configured.
C17_TenDigits ==
    \A r \in Runs :
        Returned(r, SMS) =>
            LET phone == AddressOf(r)
                res == task[r].sent IN
            /\ SmsRejected(res) <=> DigitCount(phone) < 10
            /\ DigitCount(phone) < 10 =>
                  /\ ~res.success
                  /\ ~res.transport
                  /\ ContainsText(res.error_msg, phone)
            /\ (DigitCount(phone) >= 10 /\ TwilioConfigured) => res.transport

\* C17 witness: a number of 11 characters with 9 digits was turned down with
\* an error text that holds it.
C17_Witness ==
    \E r \in Runs :
        /\ Returned(r, SMS)
        /\ Len(AddressOf(r)) > 10 /\ DigitCount(AddressOf(r)) = 9
        /\ SmsRejected(task[r].sent)
        /\ Len(task[r].sent.error_msg) = Len(AddressOf(r)) + 1

\* The address does not pass the check the sender of the channel makes of it.
FailsValidation(channel, address) ==
    IF channel = EMAIL THEN address = <<>> \/ ~EmailRegexMatch(address)
    ELSE IF channel = SMS THEN DigitCount(address) < 10
    ELSE address = <<>>

\* A configuration value the sender of the channel requires is missing.
ConfigMissing(channel) ==
    IF channel = EMAIL
    THEN \/ settings.EMAIL_HOST \in {"", Undefined, "smtp.example.com"}
         \/ settings.EMAIL_HOST_USER \in {"", Undefined}
    ELSE IF channel = SMS THEN ~TwilioConfigured
    ELSE settings.TELEGRAM_BOT_TOKEN \in {"", Undefined}

\* C18: in each sender the checks come before the network call: when the
\* address does not pass the sender's validation, or a configuration value
\* the channel requires is missing, the sender returns failure with an error
\* text and its transport has not been called; the transport is called when
\* neither is the case.
C18_ChecksBeforeTransport ==
    \A r \in Runs : \A channel \in NotificationChannel :
        Returned(r, channel) =>
            /\ (FailsValidation(channel, AddressOf(r)) \/ ConfigMissing(channel)) =>
                  /\ ~task[r].sent.success
                  /\ ~task[r].sent.transport
                  /\ task[r].sent.error_msg # NoError
            /\ ~(FailsValidation(channel, AddressOf(r)) \/ ConfigMissing(channel)) =>
                  task[r].sent.transport

\* C18 witness: the chat-bot sender was given a chat id while the token is
\* missing; it has returned failure and made no request.
C18_Witness ==
    \E r \in Runs :
        /\ Returned(r, TELEGRAM)
        /\ AddressOf(r) # <<>>
        /\ ConfigMissing(TELEGRAM)
        /\ ~task[r].sent.success /\ ~task[r].sent.transport

\* The sequence b extends the sequence a.
Extends(b, a) == Len(b) >= Len(a) /\ \A i \in 1..Len(a) : b[i] = a[i]

\* C19: over dispatches, administrative creations, saves and resends the
\* attempt log only grows at its end: a step leaves every DeliveryAttempt
\* that exists in place with its notification, channel, outcome and error
\* text, so the log of each notification after the step extends its log
\* before the step, and so does its log in every later state.
C19_LogAppendOnly ==
    [][/\ Extends(logs', logs)
       /\ Len(logs') <= Len(logs) + 1
       /\ \A n \in 1..Len(notifications) : Extends(LogsOf(n)', LogsOf(n))]_vars

\* C19 witness: the Notification was created by the administrative trigger;
\* its first dispatch failed on both channels, it was resent, and the second
\* dispatch succeeded: the log holds the two failures and then the success.
C19_Witness ==
    /\ Done(1) /\ Done(2)
    /\ task[1].notification_id = 1 /\ task[2].notification_id = 1
    /\ Len(task[1].logged) = 2
    /\ Len(logs) = 3
    /\ ~logs[1].status /\ ~logs[2].status /\ logs[3].status
    /\ logs[1].error_message # NoError
    /\ notifications[1].is_delivered

\* C20 (as claimed): a run called with recipient U and the id of an existing
\* Notification that belongs to another recipient logs no DeliveryAttempt on
\* it and leaves its delivered flag as it was (false, in a behaviour with
\* this one run).
C20_OwnRecipientOnly ==
    \A r \in Runs :
        LET t == task[r] IN
        (Resolved(r) /\ t.user_id \in Users
            /\ notifications[t.notification].user # t.user_id) =>
            /\ t.logged = <<>>
            /\ LogsOf(t.notification) = <<>>
            /\ ~notifications[t.notification].is_delivered

\* C21 (as claimed): when two runs for the same notification id and the same
\* recipient, each of which logged an attempt, have both finished, the
\* Notification's delivered flag is true if and only if the DeliveryAttempt
\* appended last to its log has outcome true, also when the runs overlapped.
C21_FlagIsNewestAttempt ==
    \A n \in 1..Len(notifications) :
        (/\ Done(1) /\ Done(2)
         /\ task[1].notification = n /\ task[2].notification = n
         /\ task[1].user_id = task[2].user_id
         /\ task[1].logged # <<>> /\ task[2].logged # <<>>) =>
            (notifications[n].is_delivered <=> LogsOf(n)[Len(LogsOf(n))].status)

\* An entry of a channel list that cannot be served for the run's recipient:
\* a name outside the enumeration, or a channel whose profile field is empty.
Unservable(r, c) ==
    \/ c \notin NotificationChannel
    \/ FieldOf(profiles[task[r].user_id], c) = <<>>

\* C22: in a run that reached the channel loop with an explicit, non-empty
\* channel list and its Notification resolved, an entry that cannot be served (unknown name, or empty profile
\* field) is tried without any sender or transport being invoked, gets exactly
\* one DeliveryAttempt under its own name with outcome false and a non-empty
\* error text, does not end the run in an exception, and is followed by the
\* next entry of the list.
C22_UnservableEntryIsFailedAttempt ==
    \A r \in Runs :
        LET t == task[r] IN
        (Resolved(r) /\ InLoop(r) /\ t.channels.given /\ t.channels.list # <<>>) =>
            /\ t.priority_channels = t.channels.list
            /\ logs = t.logged
            /\ Len(t.logged) <= Len(t.tried)
            /\ \A i \in 1..Len(t.tried) :
                  Unservable(r, t.priority_channels[i]) =>
                      /\ t.tried[i].channel = t.priority_channels[i]
                      /\ ~t.tried[i].sender
                      /\ ~t.tried[i].transport
                      /\ ~Crashed(r)
                      /\ i <= Len(t.logged) =>
                            /\ t.logged[i].channel = t.priority_channels[i]
                            /\ t.logged[i].notification = t.notification
                            /\ ~t.logged[i].status
                            /\ t.logged[i].error_message # NoError
                            /\ i < Len(t.priority_channels) =>
                                  /\ t.idx >= i + 1
                                  /\ t.pc \in {"send", "log", "delivered", "failed", "done"}
                                  /\ t.pc \in {"failed", "done"} => Len(t.tried) >= i + 1
                      /\ i > Len(t.logged) => (i = Len(t.tried) /\ t.pc = "log")

\* C22 witness: a finished run over the list (email, push) for a recipient
\* whose e-mail field is empty: both entries were tried without a sender and
\* both were logged as failures with an error text.
C22_Witness ==
    \E r \in Runs :
        LET t == task[r] IN
        /\ Done(r) /\ Resolved(r) /\ InLoop(r)
        /\ t.channels.given /\ t.channels.list = <<EMAIL, PUSH>>
        /\ profiles[t.user_id].email = <<>>
        /\ Len(t.logged) = 2
        /\ \A i \in 1..2 :
              /\ ~t.tried[i].sender /\ ~t.logged[i].status
              /\ t.logged[i].error_message # NoError
        /\ logs = t.logged

====
